---- MODULE Spec2Model ----
(***************************************************************************)
(* Model of react-native-ota-hot-update, src/index.tsx: the archive update *)
(* flow (downloadBundleUri), the git update flow (checkForGitUpdate),      *)
(* removeBundle, and the version / metadata helpers over the native        *)
(* bridge (RNhotupdate).                                                   *)
(*                                                                         *)
(* One exported operation runs at a time.  Every `await` of the source is  *)
(* a suspension point: the action that issues the call moves pc to the     *)
(* awaiting position and a "...Return" action resumes the function with    *)
(* one of the outcomes the collaborator can produce (a value or a raise).  *)
(* Everything between two awaits is one synchronous step of the JS event   *)
(* loop and therefore one action.                                          *)
(*                                                                         *)
(* log is the trace of the collaborator calls, callback invocations and    *)
(* timer events of the operation in progress, in program order.            *)
(***************************************************************************)
EXTENDS Integers, Sequences, FiniteSets, TLC

VARIABLES
    store,                \* VersionStore: the persisted version, a string
    metaStore,            \* VersionStore: the persisted metadata text
    fn,                   \* exported function in progress / last run
    pc,                   \* position inside that function
    uri, version, option, \* arguments of downloadBundleUri
    options,              \* argument of checkForGitUpdate
    restartAfterRemoved,  \* argument of removeBundle
    metadata,             \* argument of the exported setUpdateMetadata
    log,                  \* calls and callbacks of this invocation, in order
    promise,              \* state of the promise the function returned
    timers,               \* delays of the pending setTimeout callbacks
    calls,                \* number of exported operations started so far
    inv                   \* overlapping downloadBundleUri invocations

vars == <<store, metaStore, fn, pc, uri, version, option, options,
          restartAfterRemoved, metadata, log, promise, timers, calls, inv>>

----------------------------------------------------------------------------
(* Bounds *)

MaxVersion == 2      \* declared versions range over 0..MaxVersion
MaxCalls == 2        \* exported operations started in one behaviour
MaxInv == 2          \* downloadBundleUri invocations that overlap

----------------------------------------------------------------------------
(* JavaScript values *)

\* A JS number is modelled by an integer; NaN is the one non-integer needed.
NaN == 0 - 1
\* An omitted optional number argument.
Undefined == 0 - 2

\* Decimal text of the small non-negative integers.
NumStr == <<"0", "1", "2", "3", "4", "5", "6", "7", "8", "9">>

\* version + ''  (setCurrentVersion)
ToStr(n) == IF n = NaN THEN "NaN" ELSE NumStr[n + 1]

\* +rawVersion  (getVersionAsNumber): the empty string is 0, decimal text is
\* its value, anything else is NaN.
ToNumber(raw) ==
    IF raw = "" THEN 0
    ELSE IF \E i \in 1..Len(NumStr) : NumStr[i] = raw
         THEN (CHOOSE i \in 1..Len(NumStr) : NumStr[i] = raw) - 1
         ELSE NaN

\* a <= b on JS numbers: false as soon as one side is NaN.
JsLe(a, b) == a # NaN /\ b # NaN /\ a <= b

\* if (version): undefined, 0 and NaN are falsy.
TruthyNum(n) == n # Undefined /\ n # 0 /\ n # NaN

\* Values of type Metadata, named by their JS source text; "undefined" is an
\* omitted option.metadata and "circular" an object JSON.stringify rejects.
MetadataValues == {"null", "0", "false", "''", "{}", "'s'", "circular"}

\* if (option?.metadata)
TruthyMeta(m) == m \in {"{}", "'s'", "circular"}

StringifyThrows(m) == m = "circular"

\* JSON.stringify(metadata) for the values that serialize.
JSONstringify(m) ==
    CASE m = "''" -> "\"\""
      [] m = "'s'" -> "\"s\""
      [] OTHER -> m

\* JSON.stringify of a string built from the given parts: quoted.
Quote(parts) == <<"\"">> \o parts \o <<"\"">>

\* if (!uri), if (!path), options.url, clone.bundle ...
TruthyStr(s) == s # ""

----------------------------------------------------------------------------
(* Events *)

Ev(o, a) == [op |-> o, arg |-> a]

RECURSIVE Count(_, _)
Count(l, o) ==
    IF l = <<>> THEN 0
    ELSE (IF Head(l).op = o THEN 1 ELSE 0) + Count(Tail(l), o)

Has(l, o) == \E i \in 1..Len(l) : l[i].op = o

\* every occurrence of b is preceded by an occurrence of a
Precedes(l, a, b) ==
    \A j \in 1..Len(l) : l[j].op = b => \E i \in 1..(j - 1) : l[i].op = a

----------------------------------------------------------------------------
(* Helpers of src/index.tsx *)

\* installFail: option.updateFail(JSON.stringify(e))
installFail(l, e) == Append(l, Ev("updateFail", e))

\* setCurrentVersion: RNhotupdate.setCurrentVersion(version + '')
setCurrentVersion(l, v) == Append(l, Ev("setCurrentVersion", <<ToStr(v)>>))

\* setUpdateMetadata: the stringified value goes to the bridge; when
\* JSON.stringify throws, the function returns a rejected promise, which no
\* caller in this file awaits or catches.
setUpdateMetadata(l, m) ==
    IF StringifyThrows(m)
    THEN Append(l, Ev("unhandledRejection", <<"Failed to stringify metadata">>))
    ELSE Append(l, Ev("setUpdateMetadata", <<JSONstringify(m)>>))

\* setTimeout(() => resetApp(), delay)
setTimeout(l) == Append(l, Ev("setTimeout", <<>>))

Idle == pc \in {"idle", "done"} /\ timers = <<>> /\ calls < MaxCalls

NoOption == [metadata |-> "undefined", restartAfterInstall |-> FALSE,
             restartDelay |-> Undefined]
NoOptions == [url |-> "", bundlePath |-> "", restartAfterInstall |-> FALSE]

\* Metadata text the native store can hold when the application starts:
\* nothing (the bridge then returns null or the empty string), or text left
\* there that is not JSON, the case lines 69-73 guard against.
PersistedMetadata == {"", "{oops"}

Invs == 1..MaxInv

\* an invocation of downloadBundleUri that has not been made yet
NotStarted == [pc |-> "idle", uri |-> "", version |-> Undefined,
               option |-> NoOption, log |-> <<>>, promise |-> "none"]

Init ==
    /\ store = "0"
    /\ metaStore \in PersistedMetadata
    /\ fn = "none"
    /\ pc = "idle"
    /\ uri = ""
    /\ version = Undefined
    /\ option = NoOption
    /\ options = NoOptions
    /\ restartAfterRemoved = FALSE
    /\ metadata = "undefined"
    /\ log = <<>>
    /\ promise = "none"
    /\ timers = <<>>
    /\ calls = 0
    /\ inv = [i \in Invs |-> NotStarted]

----------------------------------------------------------------------------
(* Effects of a synchronous step on the bridge and on the timer queue,     *)
(* read off the events the step appended to the log.                       *)

LastArg(l, o) ==
    l[CHOOSE i \in 1..Len(l) :
        l[i].op = o /\ \A j \in (i + 1)..Len(l) : l[j].op # o].arg[1]

\* value of a store cell after the step that turned log old into log new
Written(cell, old, new, o) ==
    IF Count(new, o) > Count(old, o) THEN LastArg(new, o) ELSE cell

\* timer queue after that step; d is the delay the step would use
Scheduled(q, old, new, d) ==
    IF Count(new, "setTimeout") > Count(old, "setTimeout")
    THEN Append(q, d) ELSE q

----------------------------------------------------------------------------
(* Exported setCurrentVersion, called directly by the application *)

ApiVersions == (0..MaxVersion) \cup {NaN}

SetCurrentVersion(v) ==
    /\ Idle
    /\ fn' = "setCurrentVersion"
    /\ pc' = "done"
    /\ log' = setCurrentVersion(<<>>, v)
    /\ store' = Written(store, <<>>, log', "setCurrentVersion")
    /\ promise' = "resolved"
    /\ calls' = calls + 1
    /\ uri' = "" /\ version' = Undefined /\ option' = NoOption
    /\ options' = NoOptions /\ restartAfterRemoved' = FALSE
    /\ metadata' = "undefined"
    /\ UNCHANGED <<inv, metaStore, timers>>

----------------------------------------------------------------------------
(* downloadBundleUri *)

Uris == {"", "https://host/b.zip"}
Versions == {Undefined} \cup (0..MaxVersion)
RestartDelays == {Undefined, 0, 500}
DefaultDelay == 300
UpdateOptions == [metadata : {"undefined"} \cup MetadataValues,
                  restartAfterInstall : BOOLEAN,
                  restartDelay : RestartDelays]
Paths == {"", "/tmp/b.zip"}

\* option?.restartDelay || 300
Delay(opt) ==
    IF TruthyNum(opt.restartDelay) THEN opt.restartDelay ELSE DefaultDelay

\* if (version) { ... } : whether the version gate is evaluated at all
GateApplies(v) == TruthyNum(v)

callTransport(l, u) == Append(l, Ev("downloadBundleFile", <<u>>))

\* DownloadBundleUri without the `if (!uri)` test of lines 119-121
DownloadBundleUri_noUriCheck(u, v, opt) ==
    /\ Idle
    /\ fn' = "downloadBundleUri"
    /\ uri' = u /\ version' = v /\ option' = opt
    /\ calls' = calls + 1
    /\ IF GateApplies(v)
       THEN /\ log' = <<Ev("getCurrentVersion", <<>>)>>
            /\ pc' = "gate"
            /\ promise' = "pending"
       ELSE /\ log' = callTransport(<<>>, u)
            /\ pc' = "download"
            /\ promise' = "pending"
    /\ options' = NoOptions /\ restartAfterRemoved' = FALSE
    /\ metadata' = "undefined"
    /\ UNCHANGED <<inv, store, metaStore, timers>>

\* lines 119-131 up to the first await
DownloadBundleUri(u, v, opt) ==
    /\ Idle
    /\ fn' = "downloadBundleUri"
    /\ uri' = u /\ version' = v /\ option' = opt
    /\ calls' = calls + 1
    /\ IF ~TruthyStr(u)
       THEN /\ log' = installFail(<<>>, Quote(<<"Please give a valid URL!">>))
            /\ pc' = "done"
            /\ promise' = "resolved"
       ELSE IF GateApplies(v)
       THEN /\ log' = <<Ev("getCurrentVersion", <<>>)>>
            /\ pc' = "gate"
            /\ promise' = "pending"
       ELSE /\ log' = callTransport(<<>>, u)
            /\ pc' = "download"
            /\ promise' = "pending"
    /\ options' = NoOptions /\ restartAfterRemoved' = FALSE
    /\ metadata' = "undefined"
    /\ UNCHANGED <<inv, store, metaStore, timers>>

\* GateRejects written as !(version > currentVersion)
GateRejects_notGreater(v, currentVersion) ==
    ~(v # NaN /\ currentVersion # NaN /\ v > currentVersion)

\* GateRejects with < in place of <=
GateRejects_lt(v, currentVersion) ==
    v # NaN /\ currentVersion # NaN /\ v < currentVersion

\* version <= currentVersion
GateRejects(v, currentVersion) == JsLe(v, currentVersion)

\* await getVersionAsNumber() resumes, lines 123-134
GetVersionReturn ==
    /\ fn = "downloadBundleUri" /\ pc = "gate"
    /\ \/ \* the bridge read rejects: the await is outside the try block
          /\ log' = Append(log, Ev("throw:getCurrentVersion", <<>>))
          /\ pc' = "done"
          /\ promise' = "rejected"
       \/ LET currentVersion == ToNumber(store)
              l == Append(log, Ev("return:getCurrentVersion", <<store>>))
          IN IF GateRejects(version, currentVersion)
             THEN /\ log' = installFail(l, Quote(
                      <<"Please give a bigger version than the current version, the current version now has setted by: ",
                        ToStr(currentVersion)>>))
                  /\ pc' = "done"
                  /\ promise' = "resolved"
             ELSE /\ log' = callTransport(l, uri)
                  /\ pc' = "download"
                  /\ promise' = "pending"
    /\ UNCHANGED <<inv, metadata, store, metaStore, fn, uri, version, option, options,
                   restartAfterRemoved, timers, calls>>

\* await downloadBundleFile(...) resumes, lines 134-144 and 161-163
DownloadReturn ==
    /\ fn = "downloadBundleUri" /\ pc = "download"
    /\ \/ \* the transport raises: catch (e) { installFail(option, e) }
          /\ log' = installFail(
                      Append(log, Ev("throw:downloadBundleFile", <<>>)),
                      <<"{}">>)
          /\ pc' = "done"
          /\ promise' = "resolved"
       \/ \E path \in Paths :
            LET l == Append(log, Ev("return:downloadBundleFile", <<path>>))
            IN IF ~TruthyStr(path)
               THEN /\ log' = installFail(l,
                               Quote(<<"Cannot download bundle file: ", path>>))
                    /\ pc' = "done"
                    /\ promise' = "resolved"
               ELSE /\ log' = Append(l, Ev("setupBundlePath", <<path>>))
                    /\ pc' = "setup"
                    /\ promise' = "pending"
    /\ UNCHANGED <<inv, metadata, store, metaStore, fn, uri, version, option, options,
                   restartAfterRemoved, timers, calls>>

\* AfterSetup with the version and metadata writes moved above the test of
\* the activation result
AfterSetup_writeFirst(l, success, v, opt) ==
    LET l1 == IF TruthyNum(v) THEN setCurrentVersion(l, v) ELSE l
        l2 == IF TruthyMeta(opt.metadata)
              THEN setUpdateMetadata(l1, opt.metadata) ELSE l1
    IN IF ~success
       THEN installFail(l2, <<"undefined">>)
       ELSE LET l3 == Append(l2, Ev("updateSuccess", <<>>))
            IN IF opt.restartAfterInstall THEN setTimeout(l3) ELSE l3

\* lines 145-160: what the function does once setupBundlePath returned
AfterSetup(l, success, v, opt) ==
    IF ~success
    THEN installFail(l, <<"undefined">>)
    ELSE LET l1 == IF TruthyNum(v) THEN setCurrentVersion(l, v) ELSE l
             l2 == IF TruthyMeta(opt.metadata)
                   THEN setUpdateMetadata(l1, opt.metadata) ELSE l1
             l3 == Append(l2, Ev("updateSuccess", <<>>))
         IN IF opt.restartAfterInstall THEN setTimeout(l3) ELSE l3

\* await setupBundlePath(...) resumes, lines 144-163
SetupReturn ==
    /\ fn = "downloadBundleUri" /\ pc = "setup"
    /\ \/ \* the activation service raises: catch (e)
          /\ log' = installFail(
                      Append(log, Ev("throw:setupBundlePath", <<>>)),
                      <<"{}">>)
       \/ \E success \in BOOLEAN :
            log' = AfterSetup(
                     Append(log, Ev("return:setupBundlePath",
                                    <<IF success THEN "true" ELSE "false">>)),
                     success, version, option)
    /\ store' = Written(store, log, log', "setCurrentVersion")
    /\ metaStore' = Written(metaStore, log, log', "setUpdateMetadata")
    /\ timers' = Scheduled(timers, log, log', Delay(option))
    /\ pc' = "done"
    /\ promise' = "resolved"
    /\ UNCHANGED <<inv, metadata, fn, uri, version, option, options, restartAfterRemoved,
                   calls>>

\* the timer callback: resetApp() -> RNhotupdate.restart()
RestartTimer ==
    /\ timers # <<>>
    /\ log' = Append(log, Ev("restart", <<>>))
    /\ timers' = Tail(timers)
    /\ UNCHANGED <<inv, metadata, store, metaStore, fn, pc, uri, version, option, options,
                   restartAfterRemoved, promise, calls>>

----------------------------------------------------------------------------
(* removeBundle *)

\* deleteBundlePath().then(...) is registered and the function returns
RemoveBundle(r) ==
    /\ Idle
    /\ fn' = "removeBundle"
    /\ restartAfterRemoved' = r
    /\ log' = <<Ev("deleteBundle", <<>>)>>
    /\ pc' = "delete"
    /\ promise' = "none"
    /\ calls' = calls + 1
    /\ uri' = "" /\ version' = Undefined /\ option' = NoOption
    /\ options' = NoOptions
    /\ metadata' = "undefined"
    /\ UNCHANGED <<inv, store, metaStore, timers>>

\* lines 99-106: the body of the then-callback
AfterDelete(l, data, r) ==
    IF data /\ r
    THEN LET l1 == setTimeout(l)
         IN IF data THEN setCurrentVersion(l1, 0) ELSE l1
    ELSE l

DeleteReturn ==
    /\ fn = "removeBundle" /\ pc = "delete"
    /\ \/ \* deleteBundle rejects: no handler is attached
          log' = Append(log, Ev("throw:deleteBundle", <<>>))
       \/ \E data \in BOOLEAN :
            log' = AfterDelete(
                     Append(log, Ev("return:deleteBundle",
                                    <<IF data THEN "true" ELSE "false">>)),
                     data, restartAfterRemoved)
    /\ store' = Written(store, log, log', "setCurrentVersion")
    /\ timers' = Scheduled(timers, log, log', DefaultDelay)
    /\ pc' = "done"
    /\ UNCHANGED <<inv, metadata, metaStore, fn, uri, version, option, options,
                   restartAfterRemoved, promise, calls>>

----------------------------------------------------------------------------
(* checkForGitUpdate *)

GitUrls == {"", "https://host/repo.git"}
BundlePaths == {"", "output/main.jsbundle"}
UpdateGitOptions == [url : GitUrls, bundlePath : BundlePaths,
                     restartAfterInstall : BOOLEAN]
Configs == {"null", "config"}        \* git.getConfig(): null or a config
Branches == {"", "main"}             \* git.getBranchName()
CloneResults == [success : BOOLEAN, bundle : {"", "/repo/main.jsbundle"}]

\* finally { options?.onFinishProgress?.() }
finish(l) == Append(l, Ev("onFinishProgress", <<>>))

\* catch that reports on the pull channel when pullUpdate was in progress
catch_byBranch(l, e) ==
    finish(Append(l, Ev(IF Has(l, "pullUpdate") THEN "onPullFailed"
                        ELSE "onCloneFailed", e)))

\* catch without the finally block
catch_noFinally(l, e) == Append(l, Ev("onCloneFailed", e))

\* catch (e) { options?.onCloneFailed?.(e.toString()) } finally { ... }
catch(l, e) == finish(Append(l, Ev("onCloneFailed", e)))

\* PreconditionFails with && in place of ||
PreconditionFails_and(opts) ==
    ~TruthyStr(opts.url) /\ ~TruthyStr(opts.bundlePath)

\* if (!options.url || !options.bundlePath)
PreconditionFails(opts) == ~TruthyStr(opts.url) \/ ~TruthyStr(opts.bundlePath)

\* lines 166-173 up to the await of Promise.all
CheckForGitUpdate(opts) ==
    /\ Idle
    /\ fn' = "checkForGitUpdate"
    /\ options' = opts
    /\ calls' = calls + 1
    /\ IF PreconditionFails(opts)
       THEN /\ log' = catch(<<>>,
                        <<"Error: url or bundlePath should not be null">>)
            /\ pc' = "done"
            /\ promise' = "resolved"
       ELSE /\ log' = <<Ev("getConfig", <<>>), Ev("getBranchName", <<>>)>>
            /\ pc' = "query"
            /\ promise' = "pending"
    /\ uri' = "" /\ version' = Undefined /\ option' = NoOption
    /\ restartAfterRemoved' = FALSE
    /\ metadata' = "undefined"
    /\ UNCHANGED <<inv, store, metaStore, timers>>

\* UsePull with || in place of &&
UsePull_or(config, branch) == TruthyStr(branch) \/ config # "null"

\* if (branch && config)
UsePull(config, branch) == TruthyStr(branch) /\ config # "null"

\* await Promise.all([...]) resumes, lines 170-197
GitQueryReturn ==
    /\ fn = "checkForGitUpdate" /\ pc = "query"
    /\ \/ \E who \in {"getConfig", "getBranchName"} :
            /\ log' = catch(Append(log, Ev("throw:" \o who, <<>>)),
                            <<"Error">>)
            /\ pc' = "done"
            /\ promise' = "resolved"
       \/ \E config \in Configs, branch \in Branches :
            LET l == log \o <<Ev("return:getConfig", <<config>>),
                              Ev("return:getBranchName", <<branch>>)>>
            IN IF UsePull(config, branch)
               THEN /\ log' = Append(l, Ev("pullUpdate", <<branch>>))
                    /\ pc' = "pull"
                    /\ promise' = "pending"
               ELSE /\ log' = Append(l, Ev("cloneRepo",
                                 <<options.url, options.bundlePath>>))
                    /\ pc' = "clone"
                    /\ promise' = "pending"
    /\ UNCHANGED <<inv, metadata, store, metaStore, fn, uri, version, option, options,
                   restartAfterRemoved, timers, calls>>

\* AfterPull without the else: onPullFailed runs after the success branch too
AfterPull_noElse(l, success, opts) ==
    LET l1 == IF success
              THEN LET l0 == Append(l, Ev("onPullSuccess", <<>>))
                   IN IF opts.restartAfterInstall THEN setTimeout(l0) ELSE l0
              ELSE l
    IN Append(l1, Ev("onPullFailed", <<"pull.msg">>))

\* lines 180-189
AfterPull(l, success, opts) ==
    IF success
    THEN LET l1 == Append(l, Ev("onPullSuccess", <<>>))
         IN IF opts.restartAfterInstall THEN setTimeout(l1) ELSE l1
    ELSE Append(l, Ev("onPullFailed", <<"pull.msg">>))

\* await git.pullUpdate(...) resumes
GitPullReturn ==
    /\ fn = "checkForGitUpdate" /\ pc = "pull"
    /\ \/ log' = catch(Append(log, Ev("throw:pullUpdate", <<>>)), <<"Error">>)
       \/ \E success \in BOOLEAN :
            log' = finish(AfterPull(
                     Append(log, Ev("return:pullUpdate",
                                    <<IF success THEN "true" ELSE "false">>)),
                     success, options))
    /\ timers' = Scheduled(timers, log, log', DefaultDelay)
    /\ pc' = "done"
    /\ promise' = "resolved"
    /\ UNCHANGED <<inv, metadata, store, metaStore, fn, uri, version, option, options,
                   restartAfterRemoved, calls>>

\* if (clone.success && clone.bundle)
CloneUsable(c) == c.success /\ TruthyStr(c.bundle)

\* await git.cloneRepo(...) resumes, lines 191-199 and 206-208
GitCloneReturn ==
    /\ fn = "checkForGitUpdate" /\ pc = "clone"
    /\ \/ /\ log' = catch(Append(log, Ev("throw:cloneRepo", <<>>)), <<"Error">>)
          /\ pc' = "done"
          /\ promise' = "resolved"
       \/ \E c \in CloneResults :
            LET l == Append(log, Ev("return:cloneRepo",
                        <<IF c.success THEN "true" ELSE "false", c.bundle>>))
            IN IF CloneUsable(c)
               THEN /\ log' = Append(l, Ev("setupExactBundlePath", <<c.bundle>>))
                    /\ pc' = "exact"
                    /\ promise' = "pending"
               ELSE /\ log' = finish(Append(l,
                                 Ev("onCloneFailed", <<"clone.msg">>)))
                    /\ pc' = "done"
                    /\ promise' = "resolved"
    /\ UNCHANGED <<inv, metadata, store, metaStore, fn, uri, version, option, options,
                   restartAfterRemoved, timers, calls>>

\* lines 199-205: the value setupExactBundlePath resolved to is not read
AfterExactSetup(l, success, opts) ==
    LET l1 == Append(l, Ev("onCloneSuccess", <<>>))
    IN IF opts.restartAfterInstall THEN setTimeout(l1) ELSE l1

\* await setupExactBundlePath(clone.bundle) resumes
GitSetupReturn ==
    /\ fn = "checkForGitUpdate" /\ pc = "exact"
    /\ \/ log' = catch(Append(log, Ev("throw:setupExactBundlePath", <<>>)),
                       <<"Error">>)
       \/ \E success \in BOOLEAN :
            log' = finish(AfterExactSetup(
                     Append(log, Ev("return:setupExactBundlePath",
                                    <<IF success THEN "true" ELSE "false">>)),
                     success, options))
    /\ timers' = Scheduled(timers, log, log', DefaultDelay)
    /\ pc' = "done"
    /\ promise' = "resolved"
    /\ UNCHANGED <<inv, metadata, store, metaStore, fn, uri, version, option, options,
                   restartAfterRemoved, calls>>

----------------------------------------------------------------------------
(* Exported setUpdateMetadata and getUpdateMetadata *)

\* lines 86-93, called directly: the returned promise is the bridge's, or a
\* rejection when JSON.stringify throws
SetUpdateMetadata(m) ==
    /\ Idle
    /\ fn' = "setUpdateMetadata"
    /\ metadata' = m
    /\ pc' = "done"
    /\ IF StringifyThrows(m)
       THEN /\ log' = <<Ev("reject", <<"Failed to stringify metadata">>)>>
            /\ promise' = "rejected"
       ELSE /\ log' = setUpdateMetadata(<<>>, m)
            /\ promise' = "resolved"
    /\ metaStore' = Written(metaStore, <<>>, log', "setUpdateMetadata")
    /\ calls' = calls + 1
    /\ uri' = "" /\ version' = Undefined /\ option' = NoOption
    /\ options' = NoOptions /\ restartAfterRemoved' = FALSE
    /\ UNCHANGED <<inv, store, timers>>

\* texts of the model on which JSON.parse succeeds
JsonTexts == {"null", "0", "false", "\"\"", "{}", "\"s\""}

ParseThrows(text) == text \notin JsonTexts

\* JSON.parse(text) for those texts, as a value of MetadataValues
JSONparse(text) ==
    CASE text = "\"\"" -> "''"
      [] text = "\"s\"" -> "'s'"
      [] OTHER -> text

\* Deserialize with `JSON.parse(metadataString) || null`
Deserialize_orNull(text) ==
    IF text = "" THEN [ok |-> TRUE, value |-> "null"]
    ELSE IF ParseThrows(text)
         THEN [ok |-> FALSE, value |-> "Error parsing metadata"]
         ELSE [ok |-> TRUE,
               value |-> IF TruthyMeta(JSONparse(text))
                         THEN JSONparse(text) ELSE "null"]

\* lines 69-73: metadataString ? JSON.parse(metadataString) : null, a parse
\* error becoming Promise.reject(new Error('Error parsing metadata'))
Deserialize(text) ==
    IF text = "" THEN [ok |-> TRUE, value |-> "null"]
    ELSE IF ParseThrows(text)
         THEN [ok |-> FALSE, value |-> "Error parsing metadata"]
         ELSE [ok |-> TRUE, value |-> JSONparse(text)]

\* lines 66-67: the bridge read is issued; the argument of the last
\* setUpdateMetadata stays on record
GetUpdateMetadata ==
    /\ Idle
    /\ fn' = "getUpdateMetadata"
    /\ log' = <<Ev("getUpdateMetadata", <<>>)>>
    /\ pc' = "meta"
    /\ promise' = "pending"
    /\ calls' = calls + 1
    /\ uri' = "" /\ version' = Undefined /\ option' = NoOption
    /\ options' = NoOptions /\ restartAfterRemoved' = FALSE
    /\ UNCHANGED <<inv, metadata, store, metaStore, timers>>

\* the .then callback of lines 68-74, or the bridge's own rejection
GetMetadataReturn ==
    /\ fn = "getUpdateMetadata" /\ pc = "meta"
    /\ \/ /\ log' = Append(log, Ev("throw:getUpdateMetadata", <<>>))
          /\ promise' = "rejected"
       \/ LET l == Append(log, Ev("return:getUpdateMetadata", <<metaStore>>))
              r == Deserialize(metaStore)
          IN IF r.ok
             THEN /\ log' = Append(l, Ev("resolve", <<r.value>>))
                  /\ promise' = "resolved"
             ELSE /\ log' = Append(l, Ev("reject", <<r.value>>))
                  /\ promise' = "rejected"
    /\ pc' = "done"
    /\ UNCHANGED <<inv, metadata, store, metaStore, fn, uri, version, option,
                   options, restartAfterRemoved, timers, calls>>

----------------------------------------------------------------------------

Next ==
    \/ \E m \in MetadataValues : SetUpdateMetadata(m)
    \/ GetUpdateMetadata
    \/ GetMetadataReturn
    \/ \E v \in ApiVersions : SetCurrentVersion(v)
    \/ \E u \in Uris, v \in Versions, opt \in UpdateOptions :
         DownloadBundleUri(u, v, opt)
    \/ GetVersionReturn
    \/ DownloadReturn
    \/ SetupReturn
    \/ RestartTimer
    \/ \E r \in BOOLEAN : RemoveBundle(r)
    \/ DeleteReturn
    \/ \E opts \in UpdateGitOptions : CheckForGitUpdate(opts)
    \/ GitQueryReturn
    \/ GitPullReturn
    \/ GitCloneReturn
    \/ GitSetupReturn

Spec == Init /\ [][Next]_vars

----------------------------------------------------------------------------
(* Overlapping invocations of downloadBundleUri.  Nothing in the function  *)
(* keeps a second call from starting while the first is suspended at an    *)
(* await; each invocation i has its own arguments, position, log and       *)
(* promise in inv[i], and all share the native store.                      *)

\* the version text the store may hold when the invocations start: the
\* initial "0" or the non-numeric text left by setCurrentVersion(NaN)
StartVersions == {"0", "NaN"}

InitConc ==
    /\ Init
    /\ store \in StartVersions

ConcOptions == {NoOption}

\* lines 119-131 up to the first await, for invocation i; invocations are
\* numbered in the order in which they are made
ConcDownloadBundleUri(i, u, v, opt) ==
    /\ inv[i].pc = "idle"
    /\ \A j \in 1..(i - 1) : inv[j].pc # "idle"
    /\ LET here == [inv[i] EXCEPT !.uri = u, !.version = v, !.option = opt]
       IN IF ~TruthyStr(u)
          THEN inv' = [inv EXCEPT ![i] =
                 [here EXCEPT !.log = installFail(<<>>,
                                        Quote(<<"Please give a valid URL!">>)),
                              !.pc = "done", !.promise = "resolved"]]
          ELSE IF GateApplies(v)
          THEN inv' = [inv EXCEPT ![i] =
                 [here EXCEPT !.log = <<Ev("getCurrentVersion", <<>>)>>,
                              !.pc = "gate", !.promise = "pending"]]
          ELSE inv' = [inv EXCEPT ![i] =
                 [here EXCEPT !.log = callTransport(<<>>, u),
                              !.pc = "download", !.promise = "pending"]]
    /\ UNCHANGED <<store, metaStore, fn, pc, uri, version, option, options,
                   restartAfterRemoved, metadata, log, promise, timers, calls>>

\* await getVersionAsNumber() resumes in invocation i
ConcGetVersionReturn(i) ==
    /\ inv[i].pc = "gate"
    /\ \/ inv' = [inv EXCEPT ![i] =
            [@ EXCEPT !.log = Append(@, Ev("throw:getCurrentVersion", <<>>)),
                      !.pc = "done", !.promise = "rejected"]]
       \/ LET currentVersion == ToNumber(store)
              l == Append(inv[i].log,
                          Ev("return:getCurrentVersion", <<store>>))
          IN IF GateRejects(inv[i].version, currentVersion)
             THEN inv' = [inv EXCEPT ![i] =
                    [@ EXCEPT !.log = installFail(l, Quote(
                      <<"Please give a bigger version than the current version, the current version now has setted by: ",
                        ToStr(currentVersion)>>)),
                              !.pc = "done", !.promise = "resolved"]]
             ELSE inv' = [inv EXCEPT ![i] =
                    [@ EXCEPT !.log = callTransport(l, inv[i].uri),
                              !.pc = "download"]]
    /\ UNCHANGED <<store, metaStore, fn, pc, uri, version, option, options,
                   restartAfterRemoved, metadata, log, promise, timers, calls>>

\* await downloadBundleFile(...) resumes in invocation i
ConcDownloadReturn(i) ==
    /\ inv[i].pc = "download"
    /\ \/ inv' = [inv EXCEPT ![i] =
            [@ EXCEPT !.log = installFail(
                        Append(@, Ev("throw:downloadBundleFile", <<>>)),
                        <<"{}">>),
                      !.pc = "done", !.promise = "resolved"]]
       \/ \E path \in Paths :
            LET l == Append(inv[i].log,
                            Ev("return:downloadBundleFile", <<path>>))
            IN IF ~TruthyStr(path)
               THEN inv' = [inv EXCEPT ![i] =
                      [@ EXCEPT !.log = installFail(l,
                            Quote(<<"Cannot download bundle file: ", path>>)),
                                !.pc = "done", !.promise = "resolved"]]
               ELSE inv' = [inv EXCEPT ![i] =
                      [@ EXCEPT !.log = Append(l,
                                          Ev("setupBundlePath", <<path>>)),
                                !.pc = "setup"]]
    /\ UNCHANGED <<store, metaStore, fn, pc, uri, version, option, options,
                   restartAfterRemoved, metadata, log, promise, timers, calls>>

\* await setupBundlePath(...) resumes in invocation i
ConcSetupReturn(i) ==
    /\ inv[i].pc = "setup"
    /\ \/ inv' = [inv EXCEPT ![i] =
            [@ EXCEPT !.log = installFail(
                        Append(@, Ev("throw:setupBundlePath", <<>>)),
                        <<"{}">>),
                      !.pc = "done", !.promise = "resolved"]]
       \/ \E success \in BOOLEAN :
            inv' = [inv EXCEPT ![i] =
              [@ EXCEPT !.log = AfterSetup(
                          Append(@, Ev("return:setupBundlePath",
                                   <<IF success THEN "true" ELSE "false">>)),
                          success, inv[i].version, inv[i].option),
                        !.pc = "done", !.promise = "resolved"]]
    /\ store' = Written(store, inv[i].log, inv'[i].log, "setCurrentVersion")
    /\ metaStore' = Written(metaStore, inv[i].log, inv'[i].log,
                            "setUpdateMetadata")
    /\ timers' = Scheduled(timers, inv[i].log, inv'[i].log,
                           Delay(inv[i].option))
    /\ UNCHANGED <<fn, pc, uri, version, option, options,
                   restartAfterRemoved, metadata, log, promise, calls>>

NextConc ==
    \/ \E i \in Invs, u \in Uris, v \in Versions, opt \in ConcOptions :
         ConcDownloadBundleUri(i, u, v, opt)
    \/ \E i \in Invs : ConcGetVersionReturn(i)
    \/ \E i \in Invs : ConcDownloadReturn(i)
    \/ \E i \in Invs : ConcSetupReturn(i)

SpecConc == InitConc /\ [][NextConc]_vars

TypeOK ==
    /\ store \in {NumStr[i] : i \in 1..Len(NumStr)} \cup {"NaN"}
    /\ fn \in {"none", "setCurrentVersion", "downloadBundleUri",
               "removeBundle", "checkForGitUpdate", "setUpdateMetadata",
               "getUpdateMetadata"}
    /\ pc \in {"idle", "gate", "download", "setup", "delete", "query",
               "pull", "clone", "exact", "meta", "done"}
    /\ promise \in {"none", "pending", "resolved", "rejected"}
    /\ Len(timers) <= 1
    /\ calls \in 0..MaxCalls

----------------------------------------------------------------------------
(* Properties *)

InDownload == fn = "downloadBundleUri"
InGit == fn = "checkForGitUpdate"
InRemove == fn = "removeBundle"

\* the collaborator call o returned the value a
Returned(l, o, a) ==
    \E i \in 1..Len(l) : l[i].op = "return:" \o o /\ l[i].arg[1] = a

\* every occurrence of b comes after a return of o with value a
AfterReturn(l, o, a, b) ==
    \A j \in 1..Len(l) : l[j].op = b =>
        \E i \in 1..(j - 1) : l[i].op = "return:" \o o /\ l[i].arg[1] = a

\* the version the store held when this invocation went through the gate:
\* what getCurrentVersion returned, or, when the store was not read, the
\* store itself (an invocation that does not read the store does not write
\* it either, and no other operation runs meanwhile)
HeldVersion ==
    IF Has(log, "return:getCurrentVersion")
    THEN ToNumber(LastArg(log, "return:getCurrentVersion"))
    ELSE ToNumber(store)

VersionSupplied == version # Undefined

\* C1: a supplied declared version (0 included) that is <= the version held
\* by the store never reaches the transport or the activation service, and
\* the invocation ends with exactly one updateFail.
C1_VersionGate ==
    (/\ InDownload /\ TruthyStr(uri) /\ VersionSupplied
     /\ ~Has(log, "throw:getCurrentVersion")
     /\ JsLe(version, HeldVersion))
    => /\ ~Has(log, "downloadBundleFile")
       /\ ~Has(log, "setupBundlePath")
       /\ (pc = "done" => Count(log, "updateFail") = 1)

\* C2: with a non-empty uri, a supplied declared version that passes the
\* gate, a transport returning a non-empty path and an activation returning
\* true, the invocation ends with one updateSuccess, no updateFail and exactly
\* one setCurrentVersion write, of the declared version.
C2_SuccessfulUpdate ==
    (/\ InDownload /\ pc = "done" /\ TruthyStr(uri) /\ VersionSupplied
     /\ Returned(log, "setupBundlePath", "true")
     /\ ~JsLe(version, HeldVersion))
    => /\ Count(log, "updateSuccess") = 1
       /\ Count(log, "updateFail") = 0
       /\ Count(log, "setCurrentVersion") = 1
       /\ LastArg(log, "setCurrentVersion") = ToStr(version)
       /\ store = ToStr(version)

\* C3: when setupBundlePath returns false the invocation issues no version
\* or metadata write, does not invoke updateSuccess, schedules no restart and
\* ends with updateFail as its only callback; and no version or metadata
\* write is ever issued before setupBundlePath has returned true.
C3_FailedActivationWritesNothing ==
    InDownload =>
      /\ Returned(log, "setupBundlePath", "false") =>
           /\ ~Has(log, "setCurrentVersion")
           /\ ~Has(log, "setUpdateMetadata")
           /\ ~Has(log, "updateSuccess")
           /\ ~Has(log, "setTimeout") /\ ~Has(log, "restart")
           /\ timers = <<>>
           /\ Count(log, "updateFail") = 1
      /\ AfterReturn(log, "setupBundlePath", "true", "setCurrentVersion")
      /\ AfterReturn(log, "setupBundlePath", "true", "setUpdateMetadata")

C3_Witness ==
    /\ InDownload /\ pc = "done"
    /\ Returned(log, "setupBundlePath", "false")
    /\ TruthyNum(version) /\ TruthyMeta(option.metadata)
    /\ option.restartAfterInstall
    /\ Count(log, "updateFail") = 1

\* C4: the promise returned by downloadBundleUri never rejects, whatever the
\* collaborators do; a collaborator that raised is reported by updateFail.
C4_NeverRejects ==
    InDownload =>
      /\ promise # "rejected"
      /\ (pc = "done" =>
            /\ promise = "resolved"
            /\ ((\E i \in 1..Len(log) :
                   log[i].op \in {"throw:getCurrentVersion",
                                     "throw:downloadBundleFile",
                                     "throw:setupBundlePath"})
                => Count(log, "updateFail") = 1))

\* C5: within one invocation the transport is not called before the version
\* gate has passed, setupBundlePath not before the transport returned a
\* non-empty path, the version and metadata writes not before
\* setupBundlePath returned true, and the restart not before updateSuccess
\* and the version write.
C5_StepOrdering ==
    InDownload =>
      /\ Has(log, "downloadBundleFile") =>
           \/ ~VersionSupplied
           \/ /\ Precedes(log, "return:getCurrentVersion", "downloadBundleFile")
              /\ ~JsLe(version, HeldVersion)
      /\ AfterReturn(log, "downloadBundleFile", "/tmp/b.zip", "setupBundlePath")
      /\ AfterReturn(log, "setupBundlePath", "true", "setCurrentVersion")
      /\ AfterReturn(log, "setupBundlePath", "true", "setUpdateMetadata")
      /\ Precedes(log, "updateSuccess", "restart")
      /\ (VersionSupplied => Precedes(log, "setCurrentVersion", "restart"))

\* C6: at the end of removeBundle, a successful deleteBundle has reset the
\* stored version to 0 whatever restartAfterRemoved is; a restart is
\* scheduled exactly when deletion succeeded and restartAfterRemoved is set;
\* a failed deleteBundle leaves the version and the timers alone.
C6_RemoveBundle ==
    (InRemove /\ pc = "done") =>
      /\ Returned(log, "deleteBundle", "true") =>
           /\ Count(log, "setCurrentVersion") = 1
           /\ LastArg(log, "setCurrentVersion") = "0"
           /\ store = "0"
      /\ Has(log, "setTimeout") <=>
           (Returned(log, "deleteBundle", "true") /\ restartAfterRemoved)
      /\ Returned(log, "deleteBundle", "false") =>
           ~Has(log, "setCurrentVersion") /\ ~Has(log, "setTimeout")

MetadataSupplied == option.metadata # "undefined"

\* C7: whenever option.metadata is supplied (0, false, the empty string and
\* null included) and activation succeeded, the invocation issues exactly one
\* setUpdateMetadata write, carrying the serialized value.
C7_MetadataPersisted ==
    (/\ InDownload /\ pc = "done" /\ MetadataSupplied
     /\ ~StringifyThrows(option.metadata)
     /\ Returned(log, "setupBundlePath", "true"))
    => /\ Count(log, "setUpdateMetadata") = 1
       /\ LastArg(log, "setUpdateMetadata") = JSONstringify(option.metadata)

\* C8: when serializing option.metadata fails after a successful activation,
\* the failure reaches the caller as a metadata-serialization error through
\* the invocation's outcome and is not dropped, and the version write stays.
C8_SerializationFailureSurfaced ==
    (/\ InDownload /\ pc = "done" /\ MetadataSupplied
     /\ StringifyThrows(option.metadata)
     /\ Returned(log, "setupBundlePath", "true"))
    => /\ \E i \in 1..Len(log) :
            /\ log[i].op = "updateFail"
            /\ log[i].arg = <<"Failed to stringify metadata">>
       /\ ~Has(log, "unhandledRejection")
       /\ (TruthyNum(version) => Has(log, "setCurrentVersion"))

\* C9: once getConfig and getBranchName have resolved, a truthy config
\* together with a truthy branch leads to exactly one pullUpdate and no
\* cloneRepo; a null config or an empty branch leads to exactly one
\* cloneRepo and no pullUpdate.
C9_GitBranchSelection ==
    (InGit /\ Has(log, "return:getConfig")) =>
      LET config == LastArg(log, "return:getConfig")
          branch == LastArg(log, "return:getBranchName")
      IN IF config = "config" /\ branch = "main"
         THEN Count(log, "pullUpdate") = 1 /\ Count(log, "cloneRepo") = 0
         ELSE Count(log, "cloneRepo") = 1 /\ Count(log, "pullUpdate") = 0

C9_Witness ==
    /\ InGit /\ pc = "done"
    /\ Returned(log, "getConfig", "config")
    /\ Returned(log, "getBranchName", "main")
    /\ Count(log, "pullUpdate") = 1

OutcomeCallbacks ==
    {"onPullSuccess", "onPullFailed", "onCloneSuccess", "onCloneFailed"}

\* C10: onFinishProgress has been invoked exactly once when checkForGitUpdate
\* ends, not at all before, and after every outcome callback, on every exit
\* path.
C10_FinishOnce ==
    InGit =>
      /\ Count(log, "onFinishProgress") = (IF pc = "done" THEN 1 ELSE 0)
      /\ \A i \in 1..Len(log), j \in 1..Len(log) :
           (log[i].op \in OutcomeCallbacks /\ log[j].op = "onFinishProgress")
           => i < j
      /\ (pc = "done" => promise = "resolved")

C10_Witness ==
    /\ InGit /\ pc = "done"
    /\ Has(log, "throw:pullUpdate")
    /\ Count(log, "onCloneFailed") = 1
    /\ Count(log, "onFinishProgress") = 1

\* C11: with an empty uri the invocation does nothing but invoke updateFail
\* once with the 'Please give a valid URL!' detail: no store read or write,
\* no transport call, no activation call, whatever version and option are.
C11_EmptyUrl ==
    (InDownload /\ uri = "") =>
      /\ log = <<Ev("updateFail", <<"\"", "Please give a valid URL!", "\"">>)>>
      /\ pc = "done" /\ promise = "resolved"
      /\ timers = <<>>

C11_Witness ==
    /\ InDownload /\ uri = "" /\ pc = "done"
    /\ version = 1 /\ option.metadata = "{}" /\ option.restartAfterInstall
    /\ Count(log, "updateFail") = 1

GitSideEffects ==
    {"getConfig", "getBranchName", "pullUpdate", "cloneRepo",
     "setupExactBundlePath", "setTimeout", "restart"}

\* C12: with an empty url or bundlePath checkForGitUpdate invokes
\* onCloneFailed exactly once, makes no git or activation call, schedules no
\* restart and invokes none of onPullSuccess, onPullFailed, onCloneSuccess.
C12_GitPrecondition ==
    (InGit /\ (options.url = "" \/ options.bundlePath = "")) =>
      /\ Count(log, "onCloneFailed") = 1
      /\ \A i \in 1..Len(log) :
           /\ log[i].op \notin GitSideEffects
           /\ log[i].op \notin {"onPullSuccess", "onPullFailed",
                                "onCloneSuccess"}
      /\ timers = <<>>
      /\ pc = "done"

C12_Witness ==
    /\ InGit /\ pc = "done"
    /\ options.url = "" /\ options.bundlePath # ""
    /\ options.restartAfterInstall
    /\ Count(log, "onCloneFailed") = 1

GitThrows ==
    {"throw:getConfig", "throw:getBranchName", "throw:pullUpdate",
     "throw:cloneRepo", "throw:setupExactBundlePath"}

\* C13: an exception raised by getConfig, getBranchName, pullUpdate,
\* cloneRepo or setupExactBundlePath ends the invocation with the promise
\* resolved and onCloneFailed invoked exactly once with the string form of
\* the error, also when pullUpdate was in progress; no other outcome
\* callback is invoked.
C13_ExceptionRouting ==
    (InGit /\ \E i \in 1..Len(log) : log[i].op \in GitThrows) =>
      /\ pc = "done" /\ promise = "resolved"
      /\ Count(log, "onCloneFailed") = 1
      /\ \A i \in 1..Len(log) :
           log[i].op = "onCloneFailed" => log[i].arg = <<"Error">>
      /\ ~Has(log, "onPullFailed") /\ ~Has(log, "onPullSuccess")
      /\ ~Has(log, "onCloneSuccess")

C13_Witness ==
    /\ InGit /\ pc = "done"
    /\ Has(log, "throw:pullUpdate")
    /\ promise = "resolved"
    /\ ~Has(log, "onPullFailed")

\* C14: for every JSON-representable metadata value m (null, 0, false, the
\* empty string and an empty object included) getUpdateMetadata() after
\* setUpdateMetadata(m) resolves to m; and when the store holds text that
\* cannot be deserialized, getUpdateMetadata rejects with its own error
\* and resolves to no value.
C14_MetadataRoundTrip ==
    (fn = "getUpdateMetadata" /\ Has(log, "return:getUpdateMetadata")) =>
      /\ (metadata # "undefined" /\ metadata # "circular") =>
           /\ promise = "resolved"
           /\ Count(log, "resolve") = 1
           /\ LastArg(log, "resolve") = metadata
      /\ LastArg(log, "return:getUpdateMetadata") = "{oops" =>
           /\ promise = "rejected"
           /\ ~Has(log, "resolve")
           /\ Count(log, "reject") = 1
           /\ LastArg(log, "reject") = "Error parsing metadata"

C14_Witness ==
    /\ fn = "getUpdateMetadata" /\ pc = "done"
    /\ metadata = "''"
    /\ promise = "resolved"
    /\ LastArg(log, "return:getUpdateMetadata") = "\"\""

\* C15: in the clone branch, when setupExactBundlePath returns false the
\* failure is reported by a failure callback, onCloneSuccess is not invoked
\* and no restart is scheduled.
C15_CloneActivationFailure ==
    (InGit /\ Returned(log, "setupExactBundlePath", "false")) =>
      /\ ~Has(log, "onCloneSuccess")
      /\ ~Has(log, "setTimeout") /\ ~Has(log, "restart")
      /\ Count(log, "onCloneFailed") = 1

\* C17: every downloadBundleUri invocation, whatever the collaborators do
\* (the VersionStore read raising included), ends having invoked exactly one
\* of updateSuccess and updateFail, exactly once, and never invokes both.
C17_SingleArchiveOutcome ==
    InDownload =>
      /\ Count(log, "updateSuccess") + Count(log, "updateFail") <= 1
      /\ (pc = "done" =>
            Count(log, "updateSuccess") + Count(log, "updateFail") = 1)

RECURSIVE CountIn(_, _)
CountIn(l, ops) ==
    IF l = <<>> THEN 0
    ELSE (IF Head(l).op \in ops THEN 1 ELSE 0) + CountIn(Tail(l), ops)

\* C18: every checkForGitUpdate invocation ends having invoked exactly one of
\* onPullSuccess, onPullFailed, onCloneSuccess, onCloneFailed, exactly once;
\* the pull callbacks only after pullUpdate returned, and onCloneSuccess
\* only after cloneRepo returned success with a bundle path.
C18_SingleGitOutcome ==
    InGit =>
      /\ CountIn(log, OutcomeCallbacks) <= 1
      /\ (pc = "done" => CountIn(log, OutcomeCallbacks) = 1)
      /\ Precedes(log, "return:pullUpdate", "onPullSuccess")
      /\ Precedes(log, "return:pullUpdate", "onPullFailed")
      /\ \A j \in 1..Len(log) : log[j].op = "onCloneSuccess" =>
           \E i \in 1..(j - 1) :
             /\ log[i].op = "return:cloneRepo"
             /\ log[i].arg = <<"true", "/repo/main.jsbundle">>

C18_Witness ==
    /\ InGit /\ pc = "done"
    /\ Returned(log, "pullUpdate", "true")
    /\ Count(log, "onPullSuccess") = 1
    /\ CountIn(log, OutcomeCallbacks) = 1

SuccessCallbacks == {"updateSuccess", "onPullSuccess", "onCloneSuccess"}
FailureCallbacks == {"updateFail", "onPullFailed", "onCloneFailed"}

\* the collaborator results the design counts as a failed update
ReportedFailure(e) ==
    \/ e.op \in {"throw:getCurrentVersion", "throw:downloadBundleFile",
                 "throw:setupBundlePath"} \cup GitThrows
    \/ e.op \in {"return:setupBundlePath", "return:setupExactBundlePath",
                 "return:pullUpdate"} /\ e.arg[1] = "false"
    \/ e.op = "return:downloadBundleFile" /\ e.arg[1] = ""
    \/ e.op = "return:cloneRepo" /\ (e.arg[1] = "false" \/ e.arg[2] = "")

RestartFlag ==
    IF InDownload THEN option.restartAfterInstall
    ELSE options.restartAfterInstall

\* C19: an invocation of downloadBundleUri or checkForGitUpdate triggers the
\* restart at most once, only with restartAfterInstall set and only after
\* its success callback; never on a failure path or with the flag unset;
\* and the restart fires from the timer after the returned promise resolved.
C19_RestartDiscipline ==
    (InDownload \/ InGit) =>
      /\ Count(log, "setTimeout") <= 1 /\ Count(log, "restart") <= 1
      /\ Precedes(log, "setTimeout", "restart")
      /\ \A j \in 1..Len(log) : log[j].op \in {"setTimeout", "restart"} =>
           /\ RestartFlag
           /\ \E i \in 1..(j - 1) : log[i].op \in SuccessCallbacks
           /\ \A i \in 1..Len(log) :
                log[i].op \notin FailureCallbacks /\ ~ReportedFailure(log[i])
      /\ (Has(log, "restart") => pc = "done" /\ promise = "resolved")
      /\ (timers # <<>> => pc = "done" /\ promise = "resolved")

\* the updateFail detail of the version gate
VersionRejected ==
    \E i \in 1..Len(log) :
      /\ log[i].op = "updateFail"
      /\ Len(log[i].arg) = 4
      /\ log[i].arg[2] = "Please give a bigger version than the current version, the current version now has setted by: "

\* C20: when the store holds a non-numeric version, getVersionAsNumber gives
\* NaN, the gate does not reject any supplied declared version and the
\* invocation goes on to the transport; the gate rejects only when the
\* stored version is numeric and the declared version is <= it.
C20_CorruptedStoredVersion ==
    (InDownload /\ uri # "" /\ VersionSupplied) =>
      /\ (HeldVersion = NaN /\ pc # "gate"
          /\ ~Has(log, "throw:getCurrentVersion"))
         => Has(log, "downloadBundleFile") /\ ~VersionRejected
      /\ VersionRejected =>
           /\ Has(log, "return:getCurrentVersion")
           /\ LastArg(log, "return:getCurrentVersion") \in
                {NumStr[i] : i \in 1..Len(NumStr)}
           /\ version <= HeldVersion

C20_Witness ==
    /\ InDownload /\ version = 1
    /\ Returned(log, "getCurrentVersion", "NaN")
    /\ Has(log, "downloadBundleFile")
    /\ ~Has(log, "updateFail")

\* invocation i issues its version write in this step
Writes(i) ==
    Count(inv'[i].log, "setCurrentVersion")
      > Count(inv[i].log, "setCurrentVersion")

\* C16: under every interleaving of overlapping downloadBundleUri
\* invocations, each version write stores a value strictly greater than the
\* version the store holds at the moment of the write, so the stored
\* version never decreases.
C16_WriteAboveStore ==
    [][\A i \in Invs : Writes(i) =>
         /\ ToNumber(store) # NaN
         /\ ToNumber(LastArg(inv'[i].log, "setCurrentVersion"))
              > ToNumber(store)]_vars

\* C16, amended: each version write stores the declared version of its
\* invocation, and that version was not <= the version the invocation read
\* from the store at its gate (strictly greater when that was numeric).
C16_WriteAboveGateRead ==
    \A i \in Invs : Has(inv[i].log, "setCurrentVersion") =>
      /\ Count(inv[i].log, "setCurrentVersion") = 1
      /\ LastArg(inv[i].log, "setCurrentVersion") = ToStr(inv[i].version)
      /\ Has(inv[i].log, "return:getCurrentVersion")
      /\ LET read == ToNumber(LastArg(inv[i].log, "return:getCurrentVersion"))
         IN IF read = NaN THEN TRUE ELSE inv[i].version > read

\* two invocations overlapped, both wrote, and the store ended below one of
\* the written versions
C16_Witness ==
    /\ Has(inv[1].log, "setCurrentVersion")
    /\ Has(inv[2].log, "setCurrentVersion")
    /\ LastArg(inv[1].log, "return:getCurrentVersion") = "0"
    /\ LastArg(inv[2].log, "return:getCurrentVersion") = "0"
    /\ inv[1].version > ToNumber(store)

====
